---- MODULE Spec2Model ----
(***************************************************************************)
(* A model of the ees error helpers: on-the-fly errors (err!, wrap!,       *)
(* bail!), the pass-through adapter (to_err / WrapError), the error-chain  *)
(* renderer (print_error_chain / ErrorChain::fmt) and MainError.           *)
(*                                                                         *)
(* Error values live in `heap`; a node's id is its index.  A Box<dyn       *)
(* Error> is the id of the node it owns, 0 stands for Option::None.        *)
(* Text is a TLA+ string, \o is concatenation.                             *)
(***************************************************************************)
EXTENDS Integers, Sequences, FiniteSets, TLC

(* ------------------------------ bounds -------------------------------- *)
MaxNodes == 4      \* error values constructed in one run of Spec
MaxOwned == 1      \* error values held by program variables at one time
MaxStmts == 2      \* ordinary statements in the body of the bailing function
DeepWraps == 12    \* wraps applied by the loop of tests::more_than_ten_errors

None == 0

VARIABLES
    heap,       \* Seq of error values (FormattedError, FormattedWrapError, WrapError, io::Error)
    owned,      \* ids of the error values currently held by a program variable
    mainError,  \* MainError.error: id, or None when no MainError exists
    chain,      \* ErrorChain.error: id the displayable was built from, or None
    pc,         \* position inside ErrorChain::fmt: "idle", "L62", .., "L85", "done"
    alt,        \* f.alternate() of the running / last format call
    caller,     \* who issued the format call and the flag the caller asked for
    error,      \* local `error` of ErrorChain::fmt (the cursor)
    n,          \* local `n` of ErrorChain::fmt
    out,        \* the text written to the formatter so far
    visited,    \* ids written by the current format call, in order
    prev,       \* the previous completed format call on the value the program
                \* still holds (NoCall when there is none)
    fnPc,       \* position inside a function whose body uses bail!
    fnRet,      \* declared failure type of that function
    fnStmts,    \* statements of that function executed so far
    fnResult    \* its return value (NoResult while it has not returned)

vars == <<heap, owned, mainError, chain, pc, alt, caller, error, n, out,
          visited, prev, fnPc, fnRet, fnStmts, fnResult>>

rendererVars == <<chain, pc, alt, caller, error, n, out, visited, prev>>
fnVars == <<fnPc, fnRet, fnStmts, fnResult>>

(* ----------------------- platform formatted text ----------------------- *)
\* A format_args! value: literal pieces with one argument between each two.
Digit(d) ==
    CASE d = 0 -> "0" [] d = 1 -> "1" [] d = 2 -> "2" [] d = 3 -> "3"
      [] d = 4 -> "4" [] d = 5 -> "5" [] d = 6 -> "6" [] d = 7 -> "7"
      [] d = 8 -> "8" [] d = 9 -> "9"

RECURSIVE Dec(_)
\* Display of an unsigned integer: its decimal digits.
Dec(k) == IF k < 10 THEN Digit(k) ELSE Dec(k \div 10) \o Digit(k % 10)

RECURSIVE Spaces(_)
Spaces(k) == IF k <= 0 THEN "" ELSE " " \o Spaces(k - 1)

\* variant: a fixed indent of 4 spaces instead of a field width
PadRight_fixed(s, width) == "    " \o s

\* "{: >5}": right-align in a field of at least `width`, filled with spaces.
PadRight(s, width) == Spaces(width - Len(s)) \o s

RECURSIVE FormatFrom(_, _)
FormatFrom(t, i) ==
    IF i > Len(t.args) THEN t.lits[i]
    ELSE t.lits[i] \o Dec(t.args[i]) \o FormatFrom(t, i + 1)

\* Arguments::to_string
Format(t) == FormatFrom(t, 1)

\* Arguments::as_str: Some(literal) only when there is nothing to substitute.
as_str(t) ==
    IF Len(t.args) = 0 THEN [some |-> TRUE, str |-> t.lits[1]]
    ELSE [some |-> FALSE, str |-> ""]

Lit(s) == [lits |-> <<s>>, args |-> <<>>]
Tpl(s, a) == [lits |-> <<s, "">>, args |-> <<a>>]

\* templates handed to err! / wrap! / bail! in Spec
Templates == {Lit("permission denied"), Tpl("unknown error ", 7)}

(* ---------------------------- error values ----------------------------- *)
Borrowed(s) == [cow |-> "Borrowed", str |-> s]
Owned(s) == [cow |-> "Owned", str |-> s]
NoMessage == [cow |-> "None", str |-> ""]

FormattedError(message) ==
    [kind |-> "FormattedError", message |-> message, source |-> None, inner |-> None]

FormattedWrapError(message, source) ==
    [kind |-> "FormattedWrapError", message |-> message, source |-> source, inner |-> None]

WrapError(inner) ==
    [kind |-> "WrapError", message |-> NoMessage, source |-> None, inner |-> inner]

\* std::io::Error::new(kind, text): a platform failure, message only
IoError(text) ==
    [kind |-> "IoError", message |-> Owned(text), source |-> None, inner |-> None]

error_from_string_literal(message) == FormattedError(Borrowed(message))

error_from_string(message) == FormattedError(Owned(message))

wrap_error_from_string_literal(source, message) ==
    FormattedWrapError(Borrowed(message), source)

wrap_error_from_string(source, message) ==
    FormattedWrapError(Owned(message), source)

error_from_args(t) ==
    IF as_str(t).some THEN error_from_string_literal(as_str(t).str)
    ELSE error_from_string(Format(t))

wrap_error_from_args(source, t) ==
    IF as_str(t).some THEN wrap_error_from_string_literal(source, as_str(t).str)
    ELSE wrap_error_from_string(source, Format(t))

RECURSIVE Display(_, _)
\* <dyn Error as Display>::fmt of node id in heap h
Display(h, id) ==
    IF h[id].kind = "WrapError" THEN Display(h, h[id].inner)
    ELSE h[id].message.str

\* variant: WrapError::source returns Some(inner) instead of inner.source()
Source_link(h, id) ==
    CASE h[id].kind = "FormattedWrapError" -> h[id].source
      [] h[id].kind = "WrapError" -> h[id].inner
      [] OTHER -> None

\* variant: FormattedWrapError keeps the default source(), which is None
\* (a WrapError then finds no cause behind any inner value either)
Source_default(h, id) == None

RECURSIVE Source(_, _)
\* <dyn Error>::source of node id in heap h (None by default)
Source(h, id) ==
    CASE h[id].kind = "FormattedWrapError" -> h[id].source
      [] h[id].kind = "WrapError" -> Source(h, h[id].inner)
      [] OTHER -> None

(* ------------------------------ Init ----------------------------------- *)
NoCaller == [via |-> "none", alternate |-> FALSE]
NoCall == [chain |-> None, alt |-> FALSE, via |-> "none", asked |-> FALSE, out |-> ""]
NoResult == [ok |-> TRUE, type |-> "none", error |-> None]

Init ==
    /\ heap = <<>>
    /\ owned = {}
    /\ mainError = None
    /\ chain = None
    /\ pc = "idle"
    /\ alt = FALSE
    /\ caller = NoCaller
    /\ error = None
    /\ n = 0
    /\ out = ""
    /\ visited = <<>>
    /\ prev = NoCall
    /\ fnPc = "idle"
    /\ fnRet = "none"
    /\ fnStmts = 0
    /\ fnResult = NoResult

\* Straight-line code: values are built while no format call and no
\* bailing function is in progress, and before the run's MainError exists
\* (it is built once, then reported).
Quiet == chain = None /\ pc = "idle" /\ fnPc = "idle" /\ mainError = None

NewId == Len(heap) + 1

\* a freshly built value is bound to a variable
Bind(node, moved) ==
    /\ heap' = Append(heap, node)
    /\ owned' = (owned \ moved) \cup {NewId}

(* ------------------------- constructing errors ------------------------- *)
\* err!(template, args..)
err(t) ==
    /\ Bind(error_from_args(t), {})
    /\ prev' = NoCall
    /\ UNCHANGED <<mainError, chain, pc, alt, caller, error, n, out, visited, fnVars>>

\* std::io::Error::new(ErrorKind::PermissionDenied, "oh no")
io_error(text) ==
    /\ Bind(IoError(text), {})
    /\ prev' = NoCall
    /\ UNCHANGED <<mainError, chain, pc, alt, caller, error, n, out, visited, fnVars>>

\* wrap!(source, template, args..): source.into() moves the cause into the node
wrap(source, t) ==
    /\ Bind(wrap_error_from_args(source, t), {source})
    /\ prev' = NoCall
    /\ UNCHANGED <<mainError, chain, pc, alt, caller, error, n, out, visited, fnVars>>

\* to_err(error): error.into() moves the value into the adapter
to_err(e) ==
    /\ Bind(WrapError(e), {e})
    /\ UNCHANGED <<mainError, rendererVars, fnVars>>

\* MainError::from(error)
MainError_from(e) ==
    /\ mainError' = e
    /\ owned' = owned \ {e}
    /\ UNCHANGED <<heap, rendererVars, fnVars>>

Err ==
    /\ Quiet /\ Len(heap) < MaxNodes /\ Cardinality(owned) < MaxOwned
    /\ \E t \in Templates : err(t)

NewIoError ==
    /\ Quiet /\ Len(heap) < MaxNodes /\ Cardinality(owned) < MaxOwned
    /\ io_error("oh no")

Wrap ==
    /\ Quiet /\ Len(heap) < MaxNodes
    /\ \E source \in owned, t \in Templates : wrap(source, t)

ToErr ==
    /\ Quiet /\ Len(heap) < MaxNodes
    /\ \E e \in owned : to_err(e)

MainFrom ==
    /\ Quiet /\ mainError = None
    /\ \E e \in owned : MainError_from(e)

(* --------------------------- chain renderer ---------------------------- *)
\* print_error_chain(error): builds the displayable; by value the error
\* moves into it, by reference (&E is an Error too) the variable keeps it.
print_error_chain(e, byRef) ==
    /\ chain' = e
    /\ owned' = IF byRef THEN owned ELSE owned \ {e}
    /\ UNCHANGED <<heap, mainError, pc, alt, caller, error, n, out, visited,
                   prev, fnVars>>

\* the record of a completed format call
Completed ==
    [chain |-> chain, alt |-> alt, via |-> caller.via,
     asked |-> caller.alternate, out |-> out]

\* variant: writeln! instead of write! for the outermost message
fmt_begin_ln(id, alternate, who) ==
    /\ error' = id
    /\ out' = Display(heap, id) \o "\n"
    /\ visited' = <<id>>
    /\ alt' = alternate
    /\ caller' = who
    /\ n' = 0
    /\ pc' = "L62"
    /\ prev' = IF pc = "done" THEN Completed ELSE prev

\* variant: the mode is fixed by the first format call on the displayable
fmt_begin_sticky(id, alternate, who) ==
    /\ error' = id
    /\ out' = Display(heap, id)
    /\ visited' = <<id>>
    /\ alt' = IF pc = "done" THEN alt ELSE alternate
    /\ caller' = who
    /\ n' = 0
    /\ pc' = "L62"
    /\ prev' = IF pc = "done" THEN Completed ELSE prev

\* ErrorChain::fmt, lines 60-61: let mut error = ..; write!(f, "{}", &error)
fmt_begin(id, alternate, who) ==
    /\ error' = id
    /\ out' = Display(heap, id)
    /\ visited' = <<id>>
    /\ alt' = alternate
    /\ caller' = who
    /\ n' = 0
    /\ pc' = "L62"
    /\ prev' = IF pc = "done" THEN Completed ELSE prev

\* line 62, and in alternate mode lines 63-64
fmt_L62 ==
    /\ pc = "L62"
    /\ IF alt
       THEN IF Source(heap, error) # None
            THEN /\ out' = out \o "\n\nCaused by:" \o "\n"
                 /\ pc' = "L65"
            ELSE /\ out' = out
                 /\ pc' = "L85"
       ELSE /\ out' = out
            /\ pc' = "L80"
    /\ UNCHANGED <<heap, owned, mainError, chain, alt, caller, error, n,
                   visited, prev, fnVars>>

\* variant: a single cause is numbered too
fmt_L65_numbered ==
    /\ pc = "L65"
    /\ LET first_inner == Source(heap, error)
           second_inner == Source(heap, first_inner)
       IN IF second_inner # None
          THEN /\ out' = out \o PadRight(Dec(0), 5) \o ": "
                             \o Display(heap, first_inner) \o "\n"
                             \o PadRight(Dec(1), 5) \o ": "
                             \o Display(heap, second_inner)
               /\ error' = second_inner
               /\ n' = 2
               /\ visited' = visited \o <<first_inner, second_inner>>
               /\ pc' = "L70"
          ELSE /\ out' = out \o PadRight(Dec(0), 5) \o ": " \o Display(heap, first_inner)
               /\ visited' = Append(visited, first_inner)
               /\ pc' = "L85"
               /\ UNCHANGED <<error, n>>
    /\ UNCHANGED <<heap, owned, mainError, chain, alt, caller, prev, fnVars>>

\* lines 65-77: the first cause, numbered only when it has a cause itself
fmt_L65 ==
    /\ pc = "L65"
    /\ LET first_inner == Source(heap, error)
           second_inner == Source(heap, first_inner)
       IN IF second_inner # None
          THEN /\ out' = out \o PadRight(Dec(0), 5) \o ": "
                             \o Display(heap, first_inner) \o "\n"
                             \o PadRight(Dec(1), 5) \o ": "
                             \o Display(heap, second_inner)
               /\ error' = second_inner
               /\ n' = 2
               /\ visited' = visited \o <<first_inner, second_inner>>
               /\ pc' = "L70"
          ELSE /\ out' = out \o "    " \o Display(heap, first_inner)
               /\ visited' = Append(visited, first_inner)
               /\ pc' = "L85"
               /\ UNCHANGED <<error, n>>
    /\ UNCHANGED <<heap, owned, mainError, chain, alt, caller, prev, fnVars>>

\* lines 70-74: one turn of the numbered loop
fmt_L70 ==
    /\ pc = "L70"
    /\ LET inner == Source(heap, error)
       IN IF inner # None
          THEN /\ out' = out \o "\n" \o PadRight(Dec(n), 5) \o ": "
                             \o Display(heap, inner)
               /\ error' = inner
               /\ n' = n + 1
               /\ visited' = Append(visited, inner)
               /\ pc' = "L70"
          ELSE /\ pc' = "L85"
               /\ UNCHANGED <<out, error, n, visited>>
    /\ UNCHANGED <<heap, owned, mainError, chain, alt, caller, prev, fnVars>>

\* variant: the separator lacks its space
fmt_L80_sep ==
    /\ pc = "L80"
    /\ LET inner == Source(heap, error)
       IN IF inner # None
          THEN /\ out' = out \o ":" \o Display(heap, inner)
               /\ error' = inner
               /\ visited' = Append(visited, inner)
               /\ pc' = "L80"
          ELSE /\ pc' = "L85"
               /\ UNCHANGED <<out, error, visited>>
    /\ UNCHANGED <<heap, owned, mainError, chain, alt, caller, n, prev, fnVars>>

\* variant: the loop forgets `error = inner`
fmt_L80_stuck ==
    /\ pc = "L80"
    /\ LET inner == Source(heap, error)
       IN IF inner # None
          THEN /\ out' = out \o ": " \o Display(heap, inner)
               /\ error' = error
               /\ visited' = Append(visited, inner)
               /\ pc' = "L80"
          ELSE /\ pc' = "L85"
               /\ UNCHANGED <<out, error, visited>>
    /\ UNCHANGED <<heap, owned, mainError, chain, alt, caller, n, prev, fnVars>>

\* lines 80-83: one turn of the compact loop
fmt_L80 ==
    /\ pc = "L80"
    /\ LET inner == Source(heap, error)
       IN IF inner # None
          THEN /\ out' = out \o ": " \o Display(heap, inner)
               /\ error' = inner
               /\ visited' = Append(visited, inner)
               /\ pc' = "L80"
          ELSE /\ pc' = "L85"
               /\ UNCHANGED <<out, error, visited>>
    /\ UNCHANGED <<heap, owned, mainError, chain, alt, caller, n, prev, fnVars>>

\* line 85: Ok(())
fmt_L85 ==
    /\ pc = "L85"
    /\ pc' = "done"
    /\ UNCHANGED <<heap, owned, mainError, chain, alt, caller, error, n, out,
                   visited, prev, fnVars>>

\* format!("{}", d) / format!("{:#}", d) on the displayable d
Fmt ==
    /\ chain # None /\ pc \in {"idle", "done"} /\ caller.via \in {"none", "ErrorChain"}
    /\ \E alternate \in BOOLEAN :
          fmt_begin(chain, alternate, [via |-> "ErrorChain", alternate |-> alternate])
    /\ UNCHANGED <<heap, owned, mainError, chain, fnVars>>

\* variant: "{}" instead of "{:#}", so the caller's flag decides
MainError_fmt_plain(trait, requested) ==
    /\ chain' = mainError
    /\ fmt_begin(mainError, requested, [via |-> trait, alternate |-> requested])
    /\ UNCHANGED <<heap, owned, mainError, fnVars>>

\* <MainError as Display>::fmt and <MainError as Debug>::fmt:
\* write!(f, "{:#}", print_error_chain(self.error.as_ref()))
MainError_fmt(trait, requested) ==
    /\ chain' = mainError
    /\ fmt_begin(mainError, TRUE, [via |-> trait, alternate |-> requested])
    /\ UNCHANGED <<heap, owned, mainError, fnVars>>

MainFmt ==
    /\ mainError # None /\ chain = None /\ pc = "idle" /\ fnPc = "idle"
    /\ \E trait \in {"Display", "Debug"}, requested \in BOOLEAN :
          MainError_fmt(trait, requested)

\* the displayable goes out of scope
DropChain ==
    /\ chain # None /\ pc \in {"idle", "done"}
    /\ chain' = None
    /\ pc' = "idle"
    /\ prev' = IF chain \notin owned \cup {mainError} THEN NoCall
               ELSE IF pc = "done" THEN Completed ELSE prev
    /\ caller' = NoCaller
    /\ error' = None
    /\ n' = 0
    /\ out' = ""
    /\ visited' = <<>>
    /\ alt' = FALSE
    /\ UNCHANGED <<heap, owned, mainError, fnVars>>

PrintErrorChain ==
    /\ Quiet
    /\ \E e \in owned, byRef \in BOOLEAN : print_error_chain(e, byRef)

(* ------------------------------- bail! --------------------------------- *)
\* a function returning Result<(), Error> or MainResult is entered
FnCall ==
    /\ Quiet
    /\ \E ret \in {"Error", "MainError"} : fnRet' = ret
    /\ fnPc' = "body"
    /\ fnStmts' = 0
    /\ fnResult' = NoResult
    /\ prev' = NoCall
    /\ UNCHANGED <<heap, owned, mainError, chain, pc, alt, caller, error, n, out, visited>>

\* an ordinary statement of its body
FnStmt ==
    /\ fnPc = "body" /\ fnStmts < MaxStmts
    /\ fnStmts' = fnStmts + 1
    /\ UNCHANGED <<heap, owned, mainError, rendererVars, fnPc, fnRet, fnResult>>

\* variant: the Err value is built but not returned
bail_noreturn(t) ==
    /\ heap' = Append(heap, error_from_args(t))
    /\ fnStmts' = fnStmts
    /\ UNCHANGED <<owned, mainError, rendererVars, fnPc, fnRet, fnResult>>

\* bail!(template, args..): return Err(Into::into(err!(..)))
bail(t) ==
    /\ heap' = Append(heap, error_from_args(t))
    /\ fnResult' = [ok |-> FALSE, type |-> fnRet, error |-> NewId]
    /\ fnPc' = "returned"
    /\ UNCHANGED <<owned, mainError, rendererVars, fnRet, fnStmts>>

Bail ==
    /\ fnPc = "body" /\ Len(heap) < MaxNodes
    /\ \E t \in Templates : bail(t)

\* the body runs to its end: Ok(())
FnOk ==
    /\ fnPc = "body"
    /\ fnResult' = [ok |-> TRUE, type |-> fnRet, error |-> None]
    /\ fnPc' = "returned"
    /\ UNCHANGED <<heap, owned, mainError, rendererVars, fnRet, fnStmts>>

\* the caller takes the result: unwrap_err() binds the failure
FnTake ==
    /\ fnPc = "returned"
    /\ IF fnResult.ok
       THEN UNCHANGED <<owned, mainError>>
       ELSE IF fnResult.type = "MainError"
            THEN /\ mainError = None
                 /\ mainError' = fnResult.error
                 /\ UNCHANGED owned
            ELSE /\ Cardinality(owned) < MaxOwned
                 /\ owned' = owned \cup {fnResult.error}
                 /\ UNCHANGED mainError
    /\ fnPc' = "idle"
    /\ fnResult' = NoResult
    /\ fnStmts' = 0
    /\ fnRet' = "none"
    /\ UNCHANGED <<heap, rendererVars>>

(* --------------------------- specifications ---------------------------- *)
Next ==
    \/ Err
    \/ NewIoError
    \/ Wrap
    \/ ToErr
    \/ MainFrom
    \/ PrintErrorChain
    \/ Fmt
    \/ MainFmt
    \/ fmt_L62
    \/ fmt_L65
    \/ fmt_L70
    \/ fmt_L80
    \/ fmt_L85
    \/ DropChain
    \/ FnCall
    \/ FnStmt
    \/ Bail
    \/ FnOk
    \/ FnTake

Spec == Init /\ [][Next]_vars

\* ErrorChain::fmt is a synchronous call: once entered it runs to its return.
fmt_step == fmt_L62 \/ fmt_L65 \/ fmt_L70 \/ fmt_L80 \/ fmt_L85

FairSpec == Spec /\ WF_vars(fmt_step)

\* tests::more_than_ten_errors: an io::Error wrapped DeepWraps times with
\* "permission denied {i}", rendered at any point of the loop.
DeepBase ==
    /\ Quiet /\ heap = <<>>
    /\ io_error("oh no")

DeepWrap ==
    /\ Quiet /\ heap # <<>> /\ Len(heap) <= DeepWraps
    /\ \E source \in owned : wrap(source, Tpl("permission denied ", Len(heap) - 1))

NextDeep ==
    \/ DeepBase
    \/ DeepWrap
    \/ PrintErrorChain
    \/ Fmt
    \/ fmt_L62
    \/ fmt_L65
    \/ fmt_L70
    \/ fmt_L80
    \/ fmt_L85
    \/ DropChain

SpecDeep == Init /\ [][NextDeep]_vars

(* ------------------------ chains and their text ------------------------ *)
RECURSIVE Walk(_, _, _)
\* the ids met by following cause links from id, at most `fuel` of them
Walk(h, id, fuel) ==
    IF id = None \/ fuel = 0 THEN <<>>
    ELSE <<id>> \o Walk(h, Source(h, id), fuel - 1)

\* the chain of id, outermost first
ChainIds(h, id) == Walk(h, id, Len(h) + 1)

\* following cause links from id ends at a node without cause
Finite(h, id) == Len(ChainIds(h, id)) <= Len(h)

Depth(h, id) == Len(ChainIds(h, id))

Messages(h, id) ==
    [i \in 1..Depth(h, id) |-> Display(h, ChainIds(h, id)[i])]

RECURSIVE Join(_, _)
Join(msgs, sep) ==
    IF Len(msgs) = 0 THEN ""
    ELSE IF Len(msgs) = 1 THEN msgs[1]
    ELSE msgs[1] \o sep \o Join(Tail(msgs), sep)

\* an index right-justified in a field of 5 characters
IndexField(k) ==
    IF k < 10 THEN "    " \o Dec(k)
    ELSE IF k < 100 THEN "   " \o Dec(k)
    ELSE IF k < 1000 THEN "  " \o Dec(k)
    ELSE IF k < 10000 THEN " " \o Dec(k)
    ELSE Dec(k)

NumberedLines(msgs) ==
    [k \in 1..(Len(msgs) - 1) |-> IndexField(k - 1) \o ": " \o msgs[k + 1]]

CompactText(msgs) == Join(msgs, ": ")

ExpandedText(msgs) ==
    IF Len(msgs) = 1 THEN msgs[1]
    ELSE IF Len(msgs) = 2
         THEN Join(<<msgs[1], "", "Caused by:", "    " \o msgs[2]>>, "\n")
    ELSE Join(<<msgs[1], "", "Caused by:">> \o NumberedLines(msgs), "\n")

NoRepeat(seq) == \A i, j \in 1..Len(seq) : i # j => seq[i] # seq[j]

Done == pc = "done"

TemplateTexts == {Format(t) : t \in Templates}

\* strips the WrapError adapters around a value
RECURSIVE Peel(_, _)
Peel(h, id) == IF h[id].kind = "WrapError" THEN Peel(h, h[id].inner) ELSE id

(* ------------------------------- claims -------------------------------- *)
\* C1: a completed compact format call has written exactly the messages of
\* the chain joined by ": ", outermost first, and has written every node of
\* the chain once, in chain order.
C1_CompactJoin ==
    (Done /\ ~alt) =>
        /\ out = Join(Messages(heap, chain), ": ")
        /\ visited = ChainIds(heap, chain)

C1_Witness == Done /\ ~alt /\ Depth(heap, chain) >= 3

\* C2: a completed expanded format call on a chain of depth d >= 3 has
\* written the outermost message, an empty line, "Caused by:" and d-1 lines
\* "<index in 5 columns>: <message>", indices 0..d-2 in chain order, joined
\* by single newlines with none after the last.
C2_ExpandedNumbered ==
    (Done /\ alt /\ Depth(heap, chain) >= 3) =>
        LET msgs == Messages(heap, chain)
        IN /\ out = Join(<<msgs[1], "", "Caused by:">> \o NumberedLines(msgs), "\n")
           /\ n = Depth(heap, chain) - 1

C2_Witness == Done /\ alt /\ Depth(heap, chain) >= 12

\* C3: a completed expanded format call on a chain of depth 2 has written
\* the outer message, an empty line, "Caused by:" and the cause's message
\* behind 4 spaces, without an index.
C3_ExpandedTwo ==
    (Done /\ alt /\ Depth(heap, chain) = 2) =>
        LET msgs == Messages(heap, chain)
        IN out = msgs[1] \o "\n" \o "\n" \o "Caused by:" \o "\n" \o "    " \o msgs[2]

C3_Witness == Done /\ alt /\ Depth(heap, chain) = 2

\* C4: a FormattedError has no cause and carries the formatted template text,
\* borrowed exactly when the template has nothing to substitute; a completed
\* format call on a chain of one node has written that node's message and
\* nothing else, in either mode.
C4_SingleNode ==
    /\ \A id \in 1..Len(heap) :
          heap[id].kind = "FormattedError" =>
             /\ Source(heap, id) = None
             /\ \E t \in Templates :
                   /\ Display(heap, id) = Format(t)
                   /\ (heap[id].message.cow = "Borrowed") <=> (Len(t.args) = 0)
    /\ (Done /\ Depth(heap, chain) = 1) =>
          /\ out = Display(heap, chain)
          /\ heap[Peel(heap, chain)].kind \in {"FormattedError", "IoError"}
          /\ out = heap[Peel(heap, chain)].message.str

C4_Witness ==
    /\ Done /\ alt /\ heap[chain].kind = "FormattedError"
    /\ heap[chain].message.cow = "Owned"
    /\ prev.chain = chain /\ ~prev.alt /\ prev.out = out

\* C5: a WrapError shows its inner value's message and has its inner value's
\* cause, so a completed format call on to_err(e) or to_err(to_err(e)) has
\* written what the same mode wrote for e.
C5_ToErrPassThrough ==
    /\ \A w \in 1..Len(heap) :
          heap[w].kind = "WrapError" =>
             /\ Display(heap, w) = Display(heap, heap[w].inner)
             /\ Source(heap, w) = Source(heap, heap[w].inner)
             /\ Source(heap, w) # heap[w].inner
    /\ (/\ Done /\ prev.chain # None /\ prev.alt = alt
        /\ Peel(heap, chain) = Peel(heap, prev.chain)) => out = prev.out

C5_Witness ==
    /\ Done /\ alt /\ prev.chain # None /\ prev.alt
    /\ heap[chain].kind = "WrapError"
    /\ heap[heap[chain].inner].kind = "WrapError"
    /\ heap[heap[chain].inner].inner = prev.chain
    /\ Depth(heap, chain) >= 2

\* C6: a completed Display or Debug format call on a MainError has written
\* the expanded text of its error's chain, whatever flag the caller asked
\* for, which is also what an earlier expanded-mode call on that error wrote.
C6_MainErrorExpanded ==
    (Done /\ caller.via \in {"Display", "Debug"}) =>
        /\ chain = mainError
        /\ out = ExpandedText(Messages(heap, mainError))
        /\ (prev.chain = mainError /\ prev.alt) => out = prev.out

C6_Witness ==
    /\ Done /\ caller.via = "Debug" /\ ~caller.alternate
    /\ prev.chain = mainError /\ prev.via = "Display" /\ prev.asked
    /\ Depth(heap, mainError) >= 2

\* C7: wrap! builds a FormattedWrapError over a value the program held: its
\* message is the formatted template text, its cause is that value, its chain
\* is itself followed by the cause's chain, and no value built earlier is
\* changed.
C7_WrapAddsOneLink ==
    [][(Len(heap') > Len(heap) /\ heap'[Len(heap')].kind = "FormattedWrapError") =>
          LET new == Len(heap')
              c == heap'[new].source
          IN /\ new = Len(heap) + 1
             /\ c \in owned /\ c \notin owned' /\ new \in owned'
             /\ Source(heap', new) = c
             /\ Display(heap', new) \in TemplateTexts
             /\ ChainIds(heap', new) = <<new>> \o ChainIds(heap, c)
             /\ Messages(heap', new) = <<Display(heap', new)>> \o Messages(heap, c)
             /\ Depth(heap', new) = Depth(heap, c) + 1
             /\ \A id \in 1..Len(heap) : heap'[id] = heap[id]]_vars

C7_Witness ==
    \E id \in 1..Len(heap) :
        /\ heap[id].kind = "FormattedWrapError"
        /\ id \in owned
        /\ Depth(heap, id) >= 3
        /\ heap[heap[id].source].kind = "WrapError"

\* C8: bail! ends the function at once: the step that builds the error
\* leaves the function returned with Err of the new FormattedError (as the
\* function's failure type) and runs no statement; a function returned with
\* Err runs no further statement and never turns into Ok.
C8_BailReturns ==
    [][/\ (fnPc = "body" /\ Len(heap') > Len(heap)) =>
             /\ fnPc' = "returned"
             /\ fnResult' = [ok |-> FALSE, type |-> fnRet, error |-> Len(heap')]
             /\ Len(heap') = Len(heap) + 1
             /\ heap'[Len(heap')].kind = "FormattedError"
             /\ heap'[Len(heap')].message.str \in TemplateTexts
             /\ fnStmts' = fnStmts
       /\ (fnPc = "returned" /\ ~fnResult.ok) =>
             /\ fnPc' # "body"
             /\ fnPc' = "returned" => (fnResult' = fnResult /\ fnStmts' = fnStmts)
             /\ fnPc' = "idle" =>
                   fnResult.error \in (owned' \ owned) \cup ({mainError'} \ {mainError})]_vars

C8_Witness ==
    /\ fnPc = "returned" /\ ~fnResult.ok /\ fnResult.type = "MainError"
    /\ fnStmts < MaxStmts

\* C9: every completed format call on a displayable has run in the mode
\* that call asked for and has written that mode's text, whatever the calls
\* before it asked for, and no step of a format call changes an error value,
\* the displayable or what the program holds.
C9_ModePerCall ==
    /\ [](Done /\ caller.via = "ErrorChain" =>
            /\ alt = caller.alternate
            /\ out = IF caller.alternate
                     THEN ExpandedText(Messages(heap, chain))
                     ELSE CompactText(Messages(heap, chain)))
    /\ [][pc' \notin {"idle", pc} \/ pc \notin {"idle", "done"} =>
             /\ heap' = heap
             /\ owned' = owned
             /\ mainError' = mainError
             /\ (chain # None => chain' = chain)]_vars

C9_Witness ==
    /\ Done /\ ~alt /\ caller.via = "ErrorChain"
    /\ prev.chain = chain /\ prev.alt /\ prev.via = "ErrorChain"
    /\ Depth(heap, chain) >= 2 /\ prev.out # out

\* C10: every error value has a finite chain that never comes back to a node;
\* a running format call has written distinct nodes, a prefix of the chain;
\* a format call that was entered completes, having written every node of
\* the chain once, that is after following depth-1 cause links.
C10_ChainFiniteFmtTerminates ==
    /\ [](\A id \in 1..Len(heap) :
             /\ Finite(heap, id)
             /\ NoRepeat(ChainIds(heap, id))
             /\ Source(heap, id) < id)
    /\ [](pc \notin {"idle"} =>
             /\ NoRepeat(visited)
             /\ Len(visited) <= Depth(heap, chain)
             /\ visited = SubSeq(ChainIds(heap, chain), 1, Len(visited)))
    /\ [](Done => Len(visited) - 1 = Depth(heap, chain) - 1)
    /\ (pc \in {"L62", "L65", "L70", "L80", "L85"} ~> Done)

C10_Witness == Done /\ Len(visited) = 3 /\ heap[chain].kind = "WrapError"

====
